---- MODULE Spec2Model ----
(***************************************************************************)
(* Asset metadata store of next-video (src/src/assets.ts): the process-    *)
(* wide assetCache, the remote metadata store behind fetch, and the three  *)
(* asynchronous operations getAsset, createAsset and updateAsset, each     *)
(* split at its await points so that calls interleave as they do on the    *)
(* JavaScript event loop.                                                  *)
(***************************************************************************)
EXTENDS Integers, Sequences, FiniteSets, TLC

\* ------------------------------------------------------------------ bounds
MaxProcs == 2      \* call slots that may be in flight at the same time
MaxCalls == 3      \* calls started in one behaviour
MaxTime  == 2      \* largest value Date.now() returns

Procs == 1..MaxProcs

\* ------------------------------------------------------- JSON-like values
\* A value is tagged: a scalar, a mapping (object) or an array.  An object
\* is a function from field names to values; a missing field is a name
\* outside its DOMAIN.
S(v) == [tag |-> "scalar", val |-> v]
M(m) == [tag |-> "map", ent |-> m]
A(s) == [tag |-> "array", items |-> s]
Undef == [tag |-> "undefined"]

EmptyObj == [k \in {} |-> Undef]

Has(o, f) == f \in DOMAIN o
IsMap(v) == v.tag = "map"

\* o with field f set to v (added when missing)
With(o, f, v) == [k \in DOMAIN o \cup {f} |-> IF k = f THEN v ELSE o[k]]

\* { ...a, ...b }: object spread, right operand wins
Spread(a, b) == [k \in DOMAIN a \cup DOMAIN b |-> IF k \in DOMAIN b THEN b[k] ELSE a[k]]

Statuses == {"sourced", "pending", "uploading", "processing", "ready", "error"}

\* ------------------------------------------------------------------ paths
\* A file reference: a local path (absolute or relative, as a sequence of
\* segments) or a remote URL (host followed by the segments of its path).
Cwd == <<"app">>

LocalRef ==
    [remote |-> FALSE, abs |-> TRUE, segs |-> <<"app", "videos", "a.mp4">>, search |-> ""]
RemoteRef ==
    [remote |-> TRUE, abs |-> FALSE, segs |-> <<"cdn.io", "a.mp4">>, search |-> "?x=1"]
Refs == {LocalRef, RemoteRef}

isRemote(ref) == ref.remote

RECURSIVE CommonPrefixLen(_, _)
CommonPrefixLen(a, b) ==
    IF a = <<>> \/ b = <<>> \/ Head(a) # Head(b) THEN 0
    ELSE 1 + CommonPrefixLen(Tail(a), Tail(b))

Ups(n) == [i \in 1..n |-> ".."]

\* path.relative(cwd(), filePath): a relative path is resolved against cwd
\* first; the result climbs out of what cwd does not share and descends.
PathRelative(from, ref) ==
    LET full == IF ref.abs THEN ref.segs ELSE from \o ref.segs
        c    == CommonPrefixLen(from, full)
    IN  [remote |-> FALSE, abs |-> FALSE,
         segs |-> Ups(Len(from) - c) \o SubSeq(full, c + 1, Len(full)),
         search |-> ""]

\* config.folder: unset, or the asset folder
NoFolder == <<>>
Folders == {NoFolder, <<"videos">>}

\* toSafePath(decodeURIComponent(hostname + pathname)): scheme and search
\* params are left out, traversal segments are dropped.
defaultRemoteSourceAssetPath(url) == SelectSeq(url.segs, LAMBDA s : s # "..")

\* getAssetPath: [ok, path]; ok = FALSE is the thrown
\* 'Missing video `folder` config.'
getAssetPathFolderFirst(ref, folder) ==
    IF folder = NoFolder THEN [ok |-> FALSE, path |-> [abs |-> FALSE, segs |-> <<>>]]
    ELSE IF ~isRemote(ref) THEN [ok |-> TRUE, path |-> [abs |-> ref.abs, segs |-> ref.segs]]
    ELSE [ok |-> TRUE,
          path |-> [abs |-> FALSE, segs |-> folder \o defaultRemoteSourceAssetPath(ref)]]
getAssetPath(ref, folder) ==
    IF ~isRemote(ref) THEN [ok |-> TRUE, path |-> [abs |-> ref.abs, segs |-> ref.segs]]
    ELSE IF folder = NoFolder THEN [ok |-> FALSE, path |-> [abs |-> FALSE, segs |-> <<>>]]
    ELSE [ok |-> TRUE,
          path |-> [abs |-> FALSE, segs |-> folder \o defaultRemoteSourceAssetPath(ref)]]

\* getAssetConfigPath: the asset path with ".json" appended
getAssetConfigPath(ref, folder) ==
    LET r == getAssetPath(ref, folder)
        n == Len(r.path.segs)
    IN  IF ~r.ok THEN r
        ELSE [ok |-> TRUE,
              path |-> [abs |-> r.path.abs,
                        segs |-> [i \in 1..n |-> IF i = n THEN r.path.segs[i] \o ".json"
                                                  ELSE r.path.segs[i]]]]

Keys == {getAssetConfigPath(r, f).path : r \in Refs, f \in Folders \ {NoFolder}}

\* ------------------------------------------------------------ JSON wire
\* JSON.stringify followed by response.json(): fields holding undefined
\* are dropped, at every depth.
RECURSIVE Json(_)
Json(o) ==
    [k \in {f \in DOMAIN o : o[f].tag # "undefined"} |->
        IF IsMap(o[k]) THEN M(Json(o[k].ent)) ELSE o[k]]

\* ------------------------------------------------------------ deepMerge
RECURSIVE deepMerge2(_, _)
deepMerge2(a, b) ==
    [k \in DOMAIN a \cup DOMAIN b |->
        IF ~Has(b, k) THEN a[k]
        ELSE IF Has(a, k) /\ IsMap(a[k]) /\ IsMap(b[k])
             THEN M(deepMerge2(a[k].ent, b[k].ent))
             ELSE b[k]]

deepMerge(a, b, c) == deepMerge2(deepMerge2(a, b), c)

\* updateAsset, lines 172-174: the patch over the current record, then the
\* clock as updatedAt.
MergeUnstamped(cur, patch, now) == deepMerge2(cur, patch)
MergeShallow(cur, patch, now) == Spread(Spread(cur, patch), [updatedAt |-> S(now)])
MergePatchClock(cur, patch, now) == deepMerge(cur, [updatedAt |-> S(now)], patch)
MergeAsset(cur, patch, now) == deepMerge(cur, patch, [updatedAt |-> S(now)])

\* ----------------------------------------------------------- transforms
camelCase(p) ==
    CASE p = "vercel-blob" -> "vercelBlob"
      [] p = "amazon-s3"   -> "amazonS3"
      [] OTHER             -> p

\* Object.entries(transformers), in module order
Transformers == <<"mux", "vercelBlob", "amazonS3">>

\* transformers[key].transform(asset): a pure function of the record; each
\* provider derives the playable sources it serves.
Transform(key, asset) == With(asset, "sources", A(<<key>>))

TransformRaw(asset) ==
    IF ~Has(asset, "provider") \/ asset.provider.val = "" THEN asset
    ELSE IF \E i \in 1..Len(Transformers) : Transformers[i] = asset.provider.val
         THEN Transform(asset.provider.val, asset)
         ELSE asset
RECURSIVE transformLoop(_, _)
transformLoop(i, asset) ==
    IF i > Len(Transformers) THEN asset
    ELSE IF Transformers[i] = camelCase(asset.provider.val)
         THEN Transform(Transformers[i], asset)
         ELSE transformLoop(i + 1, asset)

\* the registry keys whose transform the loop of lines 194-198 invokes
RECURSIVE invokedFrom(_, _)
invokedFrom(i, asset) ==
    IF i > Len(Transformers) THEN <<>>
    ELSE IF Transformers[i] = camelCase(asset.provider.val)
         THEN <<Transformers[i]>>
         ELSE invokedFrom(i + 1, asset)

transformsInvoked(asset) ==
    IF ~Has(asset, "provider") \/ asset.provider.val = "" THEN <<>>
    ELSE invokedFrom(1, asset)

transformAsset(asset) ==
    IF ~Has(asset, "provider") \/ asset.provider.val = "" THEN asset
    ELSE transformLoop(1, asset)

\* ----------------------------------------------------------- createAsset
\* lines 132-145: the record built from the reference, the overrides, the
\* configured provider and two reads of the clock.
NewAssetOverridable(ref, overrides, provider, t1, t2) ==
    Spread([status |-> S("pending"),
            originalFilePath |-> S(IF isRemote(ref) THEN ref ELSE PathRelative(Cwd, ref)),
            provider |-> S(provider),
            providerMetadata |-> M(EmptyObj),
            createdAt |-> S(t1),
            updatedAt |-> S(t2)],
           overrides)
NewAsset(ref, overrides, provider, t1, t2) ==
    Spread(Spread([status |-> S("pending")], overrides),
           [originalFilePath |-> S(IF isRemote(ref) THEN ref ELSE PathRelative(Cwd, ref)),
            provider |-> S(provider),
            providerMetadata |-> M(EmptyObj),
            createdAt |-> S(t1),
            updatedAt |-> S(t2)])

\* ------------------------------------------------------------- loadAsset
\* line 53: assetPath in assetCache
CacheHit(cache, key) == key \in DOMAIN cache

StatusOf(asset) == IF Has(asset, "status") THEN asset.status.val ELSE "undefined"

\* lines 67-70: the cache after a successful read of asset under key
CacheAnyStatus(cache, key, asset) == With(cache, key, asset)
CacheEvictStale(cache, key, asset) ==
    IF StatusOf(asset) = "ready" THEN With(cache, key, asset)
    ELSE [k \in DOMAIN cache \ {key} |-> cache[k]]
CacheInsert(cache, key, asset) ==
    IF StatusOf(asset) = "ready" THEN With(cache, key, asset) ELSE cache

\* ---------------------------------------------------------- configuration
\* videoConfig.provider
ConfigProvider == "mux"

\* ------------------------------------------------------------------ inputs
\* assetDetails passed to updateAsset
PatchReady == [status |-> S("ready")]
PatchMeta ==
    [status |-> S("processing"), provider |-> S("vercel-blob"),
     providerMetadata |-> M([mux |-> M([uploadId |-> S("u1")])])]
PatchStamps == [createdAt |-> S(5), updatedAt |-> S(5), provider |-> S("")]
PatchCustom == [provider |-> S("custom")]
Patches == {PatchReady, PatchMeta, PatchStamps, PatchCustom}

\* assetDetails passed to createAsset
FullOverride ==
    [status |-> S("ready"), originalFilePath |-> S(RemoteRef), provider |-> S("custom"),
     providerMetadata |-> M([mux |-> M([uploadId |-> S("u0")])]),
     createdAt |-> S(0), updatedAt |-> S(0), poster |-> Undef]
Overrides == {EmptyObj, FullOverride}

\* size reported by stat(filePath)
StatSize(ref) == 7 * Len(ref.segs)

\* ------------------------------------------------------------------- state
VARIABLES
    assetCache,   \* line 48: storage key -> record
    store,        \* the remote metadata store: storage key -> JSON record
    folder,       \* videoConfig.folder
    now,          \* Date.now()
    calls,        \* the call running in each slot
    started,      \* calls started so far
    lastLoad,     \* per key: status class of the record the last load returned
    everReady,    \* per key: some load returned a ready record
    born,         \* per key: createdAt of the record's creation
    lastUpd,      \* per key: updatedAt returned by the last completed update
    lastRet       \* per key: the write that returned last, if no call began since

vars == <<assetCache, store, folder, now, calls, started, lastLoad, everReady, born, lastUpd,
          lastRet>>

NoKey == [abs |-> FALSE, segs |-> <<>>]
\* no timestamp: below every value of the clock
None == 0 - 1

\* no write returned last
NoRet == [op |-> "none", arg |-> EmptyObj, rec |-> EmptyObj]

IdleCall ==
    [pc |-> "idle", op |-> "none", ref |-> LocalRef, arg |-> EmptyObj, key |-> NoKey,
     resp |-> "none", body |-> EmptyObj, cur |-> EmptyObj, merged |-> EmptyObj,
     out |-> EmptyObj, xf |-> <<>>, result |-> "none", ret |-> EmptyObj,
     loaded |-> "none", reads |-> 0, writes |-> 0, stat |-> "none",
     seenLast |-> "none", seenEver |-> FALSE, prevUpd |-> None,
     prev |-> NoRet, cached |-> FALSE, wrote |-> FALSE, mergedAt |-> None]

\* records the store may hold when the process starts: created at time 0
InitRecords == {Json(NewAsset(LocalRef, [status |-> S("ready")], ConfigProvider, 0, 0))}

\* the store starts empty or with a record of the local file
InitStores ==
    {EmptyObj} \cup {[k \in {getAssetConfigPath(LocalRef, NoFolder).path} |-> r] : r \in InitRecords}

Init ==
    /\ assetCache = EmptyObj
    /\ store \in InitStores
    /\ folder \in Folders
    /\ now = 1
    /\ calls = [p \in Procs |-> IdleCall]
    /\ started = 0
    /\ lastLoad = [k \in Keys |-> "none"]
    /\ everReady = [k \in Keys |-> FALSE]
    /\ born = [k \in Keys |-> IF k \in DOMAIN store THEN store[k].createdAt.val ELSE None]
    /\ lastUpd = [k \in Keys |-> None]
    /\ lastRet = [k \in Keys |-> NoRet]

\* the key a reference resolves to under the configuration, or NoKey
KeyOf(ref) ==
    LET r == getAssetConfigPath(ref, folder) IN IF r.ok THEN r.path ELSE NoKey

StatusClass(asset) == IF StatusOf(asset) = "ready" THEN "ready" ELSE "other"

\* --------------------------------------------------------------- actions
\* a call takes the lowest free slot (slots are interchangeable); a call made
\* alone starts when no other call is in flight
Begin(p, op, ref, arg, alone) ==
    /\ calls[p].pc = "idle"
    /\ \A q \in Procs : q < p => calls[q].pc # "idle"
    /\ alone => \A q \in Procs : calls[q].pc = "idle"
    /\ started < MaxCalls
    /\ started' = started + 1
    /\ calls' = [calls EXCEPT ![p] =
            [IdleCall EXCEPT !.pc = "config", !.op = op, !.ref = ref, !.arg = arg,
                             !.prevUpd = IF KeyOf(ref) \in Keys THEN lastUpd[KeyOf(ref)] ELSE None,
                             !.prev = IF KeyOf(ref) \in Keys THEN lastRet[KeyOf(ref)] ELSE NoRet]]
    /\ lastRet' = [k \in Keys |-> IF k = KeyOf(ref) THEN NoRet ELSE lastRet[k]]
    /\ UNCHANGED <<assetCache, store, folder, now, lastLoad, everReady, born, lastUpd>>

\* getAsset(filePath) is called
CallGet(p, refs, alone) == \E ref \in refs : Begin(p, "get", ref, EmptyObj, alone)

\* createAsset(filePath, assetDetails) is called
CallCreate(p, refs, overrides, alone) ==
    \E ref \in refs, o \in overrides : Begin(p, "create", ref, o, alone)

\* updateAsset(filePath, assetDetails) is called
CallUpdate(p, refs, patches, alone) ==
    \E ref \in refs, d \in patches : Begin(p, "update", ref, d, alone)

Fail(c, why) == [c EXCEPT !.pc = "done", !.result = why, !.resp = "none"]

\* loadAsset, lines 63-64: a response that is not ok throws; getAsset and
\* updateAsset let the error through to their caller.
LoadRetriesOnce(c) ==
    IF c.reads = 1
    THEN [c EXCEPT !.resp = "none", !.reads = 2]
    ELSE [Fail(c, "notfound") EXCEPT !.loaded = "fail"]
LoadRetriesUntilOk(c) == [c EXCEPT !.resp = "none"]
LoadReturnsUndefined(c) ==
    IF c.op = "get"
    THEN [c EXCEPT !.pc = "done", !.result = "ok", !.resp = "none", !.loaded = "fail"]
    ELSE [Fail(c, "notfound") EXCEPT !.loaded = "fail"]
LoadErrorSwallowed(c) ==
    IF c.op = "get"
    THEN [Fail(c, "notfound") EXCEPT !.loaded = "fail"]
    ELSE [c EXCEPT !.pc = "merge", !.resp = "none", !.loaded = "fail",
                   !.cur = EmptyObj]
LoadThrows(c) == [Fail(c, "notfound") EXCEPT !.loaded = "fail"]

\* loadAsset, lines 66-71, and what the caller does with the record: getAsset
\* returns it, updateAsset goes on to merge over it.
LoadReturns(c, asset, how) ==
    IF c.op = "get"
    THEN [c EXCEPT !.pc = "done", !.result = "ok", !.ret = asset, !.loaded = how, !.resp = "none"]
    ELSE [c EXCEPT !.pc = "merge", !.cur = asset, !.loaded = how, !.resp = "none"]

\* loadAsset up to its first await (lines 51-61): a hit returns the cached
\* record, a miss issues the GET.
Lookup(c, key) ==
    LET c1 == [c EXCEPT !.key = key, !.seenLast = lastLoad[key], !.seenEver = everReady[key]]
    IN  IF CacheHit(assetCache, key)
        THEN LoadReturns(c1, assetCache[key], "hit")
        ELSE [c1 EXCEPT !.pc = "fetching", !.reads = c.reads + 1]

\* getAsset and updateAsset after the configuration and the key have been
\* awaited (lines 76-78, 164-166)
ResolveLoad(p) ==
    LET c == calls[p]
        r == getAssetConfigPath(c.ref, folder)
    IN  /\ c.pc = "config"
        /\ c.op \in {"get", "update"}
        /\ calls' = [calls EXCEPT ![p] = IF r.ok THEN Lookup(c, r.path) ELSE Fail(c, "config")]
        /\ UNCHANGED <<assetCache, store, folder, now, started, lastLoad, everReady, born, lastUpd, lastRet>>

\* createAsset, lines 129-145: the record is built; a local reference goes on
\* to stat, a remote one to saveAsset.  The clock may advance between the
\* two reads of Date.now().
ResolveCreate(p) ==
    LET c == calls[p]
        r == getAssetConfigPath(c.ref, folder)
    IN  /\ c.pc = "config"
        /\ c.op = "create"
        /\ \E t1 \in now..MaxTime : \E t2 \in t1..MaxTime :
            /\ now' = t2
            /\ calls' = [calls EXCEPT ![p] =
                    IF ~r.ok THEN Fail(c, "config")
                    ELSE LET rec == NewAsset(c.ref, c.arg, ConfigProvider, t1, t2)
                         IN  IF isRemote(c.ref)
                             THEN [c EXCEPT !.key = r.path, !.out = rec, !.pc = "saving",
                                            !.writes = c.writes + 1]
                             ELSE [c EXCEPT !.key = r.path, !.out = rec, !.pc = "stat"]]
        /\ UNCHANGED <<assetCache, store, folder, started, lastLoad, everReady, born, lastUpd, lastRet>>

\* createAsset, lines 147-155: stat succeeds and sets size, or throws and is
\* ignored; then saveAsset issues the POST.
StatErrorThrown(c, ok) ==
    IF ok
    THEN [c EXCEPT !.pc = "saving", !.writes = c.writes + 1, !.stat = "ok",
                   !.out = With(c.out, "size", S(StatSize(c.ref)))]
    ELSE [Fail(c, "stat") EXCEPT !.stat = "fail"]
AfterStat(c, ok) ==
    [c EXCEPT !.pc = "saving", !.writes = c.writes + 1,
              !.stat = IF ok THEN "ok" ELSE "fail",
              !.out = IF ok THEN With(c.out, "size", S(StatSize(c.ref))) ELSE c.out]

\* the stat of the local file succeeds or fails
Stat(p) ==
    LET c == calls[p]
    IN  /\ c.pc = "stat"
        /\ \E ok \in BOOLEAN : calls' = [calls EXCEPT ![p] = AfterStat(c, ok)]
        /\ UNCHANGED <<assetCache, store, folder, now, started, lastLoad, everReady, born, lastUpd, lastRet>>

\* the remote store answers the GET of line 59
ServeRead(p) ==
    LET c == calls[p]
    IN  /\ c.pc = "fetching"
        /\ c.resp = "none"
        /\ \/ /\ c.key \in DOMAIN store
              /\ calls' = [calls EXCEPT ![p] = [c EXCEPT !.resp = "ok", !.body = store[c.key]]]
           \/ calls' = [calls EXCEPT ![p] = [c EXCEPT !.resp = "fail"]]
        /\ UNCHANGED <<assetCache, store, folder, now, started, lastLoad, everReady, born, lastUpd, lastRet>>

\* loadAsset after the response (lines 63-72)
RecvRead(p) ==
    LET c == calls[p]
    IN  /\ c.pc = "fetching"
        /\ c.resp # "none"
        /\ IF c.resp = "fail"
           THEN /\ calls' = [calls EXCEPT ![p] = LoadThrows(c)]
                /\ UNCHANGED <<assetCache, lastLoad, everReady>>
           ELSE /\ assetCache' = CacheInsert(assetCache, c.key, c.body)
                /\ lastLoad' = [lastLoad EXCEPT ![c.key] = StatusClass(c.body)]
                /\ everReady' = [everReady EXCEPT ![c.key] = @ \/ StatusClass(c.body) = "ready"]
                /\ calls' = [calls EXCEPT ![p] =
                        [LoadReturns(c, c.body, "ok") EXCEPT
                            !.cached = CacheInsert(assetCache, c.key, c.body) # assetCache]]
        /\ UNCHANGED <<store, folder, now, started, born, lastUpd, lastRet>>

\* updateAsset, lines 172-178: merge, transform, and the POST is issued
Merge(p) ==
    LET c == calls[p]
    IN  /\ c.pc = "merge"
        /\ \E t \in now..MaxTime :
            LET m == MergeAsset(c.cur, c.arg, t)
            IN  /\ now' = t
                /\ calls' = [calls EXCEPT ![p] =
                        [c EXCEPT !.pc = "saving", !.merged = m, !.out = transformAsset(m),
                                  !.xf = transformsInvoked(m), !.writes = c.writes + 1,
                                  !.mergedAt = t]]
        /\ UNCHANGED <<assetCache, store, folder, started, lastLoad, everReady, born, lastUpd, lastRet>>

\* saveAsset, line 106: the request carries the whole record, serialized
WriteBodyPatch(c) ==
    IF c.op = "update" /\ c.key \in DOMAIN store
    THEN Json(transformAsset(MergeAsset(store[c.key], c.arg, c.mergedAt)))
    ELSE Json(c.out)
WriteBody(c) == Json(c.out)

\* the remote store answers the POST of line 107: it stores the record, or
\* rejects the request
ServeWrite(p) ==
    LET c == calls[p]
    IN  /\ c.pc = "saving"
        /\ c.resp = "none"
        /\ \/ /\ store' = With(store, c.key, WriteBody(c))
              /\ born' = IF c.op = "create"
                         THEN [born EXCEPT ![c.key] = c.out.createdAt.val]
                         ELSE born
              /\ calls' = [calls EXCEPT ![p] = [c EXCEPT !.resp = "ok", !.wrote = TRUE]]
           \/ /\ calls' = [calls EXCEPT ![p] = [c EXCEPT !.resp = "fail"]]
              /\ UNCHANGED <<store, born>>
        /\ UNCHANGED <<assetCache, folder, now, started, lastLoad, everReady, lastUpd, lastRet>>

\* saveAsset and the return of createAsset and updateAsset (lines 105-123,
\* 155-157, 178-180) assign nothing to assetCache
SaveCaches(cache, c) == CacheInsert(cache, c.key, Json(c.out))
CacheAfterSave(cache, c) == cache

\* saveAsset after the response (lines 118-122), and the caller's return
RecvWrite(p) ==
    LET c == calls[p]
    IN  /\ c.pc = "saving"
        /\ c.resp # "none"
        /\ IF c.resp = "fail"
           THEN /\ calls' = [calls EXCEPT ![p] = Fail(c, "write")]
                /\ UNCHANGED <<assetCache, lastUpd, lastRet>>
           ELSE /\ calls' = [calls EXCEPT ![p] =
                        [c EXCEPT !.pc = "done", !.result = "ok", !.ret = c.out, !.resp = "none"]]
                /\ lastUpd' = IF c.op = "update"
                              THEN [lastUpd EXCEPT ![c.key] = c.out.updatedAt.val]
                              ELSE lastUpd
                /\ lastRet' = [lastRet EXCEPT ![c.key] =
                                   [op |-> c.op, arg |-> c.arg, rec |-> c.out]]
                /\ assetCache' = CacheAfterSave(assetCache, c)
        /\ UNCHANGED <<store, folder, now, started, lastLoad, everReady, born>>

\* the caller has taken the result; the slot is free again
Return(p) ==
    /\ calls[p].pc = "done"
    /\ calls' = [calls EXCEPT ![p] = IdleCall]
    /\ UNCHANGED <<assetCache, store, folder, now, started, lastLoad, everReady, born, lastUpd, lastRet>>

\* what a call in flight does next
Step(p) ==
    \/ ResolveLoad(p)
    \/ ResolveCreate(p)
    \/ Stat(p)
    \/ ServeRead(p)
    \/ RecvRead(p)
    \/ Merge(p)
    \/ ServeWrite(p)
    \/ RecvWrite(p)
    \/ Return(p)

\* calls on the local file with the status patches, started while other calls
\* are in flight
Next ==
    \/ \E p \in Procs : CallGet(p, {LocalRef}, FALSE)
    \/ \E p \in Procs : CallCreate(p, {LocalRef}, {EmptyObj}, FALSE)
    \/ \E p \in Procs : CallUpdate(p, {LocalRef}, {PatchReady, PatchMeta}, FALSE)
    \/ \E p \in Procs : Step(p)

Spec == Init /\ [][Next]_vars

\* calls on every reference, each started after the one before has returned
NextSeq ==
    \/ \E p \in Procs : CallGet(p, Refs, TRUE)
    \/ \E p \in Procs : CallCreate(p, Refs, Overrides, TRUE)
    \/ \E p \in Procs : CallUpdate(p, Refs, Patches, TRUE)
    \/ \E p \in Procs : Step(p)

SpecSeq == Init /\ [][NextSeq]_vars

\* the continuations of a call, which the event loop runs once they are ready
Client(p) ==
    \/ ResolveLoad(p)
    \/ ResolveCreate(p)
    \/ Stat(p)
    \/ RecvRead(p)
    \/ Merge(p)
    \/ RecvWrite(p)
    \/ Return(p)

\* the remote store answers a request
Respond(p) == ServeRead(p) \/ ServeWrite(p)

\* calls on the local file, getAsset and updateAsset started while other
\* calls are in flight, every ready continuation run and every request
\* answered in the end
NextLive ==
    \/ \E p \in Procs : CallGet(p, {LocalRef}, FALSE)
    \/ \E p \in Procs : CallCreate(p, {LocalRef}, {EmptyObj}, TRUE)
    \/ \E p \in Procs : CallUpdate(p, {LocalRef}, {PatchReady}, FALSE)
    \/ \E p \in Procs : Client(p)
    \/ \E p \in Procs : Respond(p)

SpecLive ==
    /\ Init
    /\ [][NextLive]_vars
    /\ \A p \in Procs : WF_vars(Client(p)) /\ WF_vars(Respond(p))

\* --------------------------------------------- updateAsset from its merge
\* records the remote store may return, and patches a caller may pass: fields
\* present or absent, scalars, arrays, mappings nested in mappings, and a
\* patch whose value changes a field's kind
One(f, v) == [k \in {f} |-> v]

MuxMeta(v) == M(One("mux", v))

MergeCurs ==
    { Spread(Spread([status |-> st, provider |-> S("mux"), createdAt |-> S(0), updatedAt |-> S(0)],
                    pm), src) :
        st \in {S("pending"), S("ready")},
        pm \in {EmptyObj, One("providerMetadata", M(EmptyObj)),
                One("providerMetadata", MuxMeta(M([uploadId |-> S("u0"), assetId |-> S("a0")])))},
        src \in {EmptyObj, One("sources", A(<<"s0">>))} }

MergePatches ==
    { Spread(Spread(Spread(st, pm), src), up) :
        st \in {EmptyObj, One("status", S("ready"))},
        pm \in {EmptyObj, One("providerMetadata", MuxMeta(M([uploadId |-> S("u1")]))),
                One("providerMetadata", MuxMeta(S("flat"))),
                One("providerMetadata", S("none"))},
        src \in {EmptyObj, One("sources", A(<<"s1">>))},
        up \in {EmptyObj, One("updatedAt", S(5))} }

LocalKey == getAssetConfigPath(LocalRef, NoFolder).path

\* an updateAsset call that has read cur and is about to merge d over it
AtMerge(cur, d) ==
    [IdleCall EXCEPT !.pc = "merge", !.op = "update", !.arg = d, !.key = LocalKey,
                     !.body = cur, !.cur = cur, !.loaded = "ok", !.reads = 1]

InitMerge ==
    /\ assetCache = EmptyObj
    /\ \E cur \in MergeCurs, d \in MergePatches :
        /\ store = One(LocalKey, cur)
        /\ calls = [p \in Procs |-> IF p = 1 THEN AtMerge(cur, d) ELSE IdleCall]
    /\ folder = NoFolder
    /\ now = 1
    /\ started = 1
    /\ lastLoad = [k \in Keys |-> IF k = LocalKey THEN "other" ELSE "none"]
    /\ everReady = [k \in Keys |-> FALSE]
    /\ born = [k \in Keys |-> IF k = LocalKey THEN 0 ELSE None]
    /\ lastUpd = [k \in Keys |-> None]
    /\ lastRet = [k \in Keys |-> NoRet]

NextMerge ==
    \/ \E p \in Procs : Merge(p)
    \/ \E p \in Procs : ServeWrite(p)
    \/ \E p \in Procs : RecvWrite(p)

SpecMerge == InitMerge /\ [][NextMerge]_vars

\* ================================================================ claims
\* the calls that went through loadAsset's cache lookup
Looked(p) == calls[p].loaded # "none" \/ calls[p].pc = "fetching"

\* C1: every record held in assetCache has status "ready"; a record loaded
\* with any other status is never stored.
CacheHoldsOnlyReady ==
    \A k \in DOMAIN assetCache : StatusOf(assetCache[k]) = "ready"

\* C1 witness: a load returned a record that is not ready, and its key is
\* not cached.
NonReadyLoadedNotCached ==
    \E p \in Procs :
        /\ calls[p].loaded = "ok"
        /\ StatusOf(calls[p].body) # "ready"
        /\ calls[p].key \notin DOMAIN assetCache

\* C2 as stated: once assetCache holds a record under k, the entry is never
\* removed and never replaced by a different record.
CacheWriteOnce ==
    [][\A k \in DOMAIN assetCache :
          k \in DOMAIN assetCache' /\ assetCache'[k] = assetCache[k]]_vars

\* C2 amended: once assetCache holds a record under k, the key is never
\* removed; the record is replaced only when a load of k that had already
\* missed the cache receives a ready record, and then by that record.
CacheKeptOrReloaded ==
    [][\A k \in DOMAIN assetCache :
          /\ k \in DOMAIN assetCache'
          /\ assetCache'[k] # assetCache[k] =>
                \E p \in Procs :
                    /\ calls[p].pc = "fetching" /\ calls[p].resp = "ok"
                    /\ calls[p].key = k
                    /\ calls'[p].loaded = "ok"
                    /\ StatusOf(calls[p].body) = "ready"
                    /\ assetCache'[k] = calls[p].body]_vars

\* C2 witness: a key is cached and a load of it that missed earlier is about
\* to deliver a different ready record.
ReloadOverCachedEntry ==
    \E p \in Procs :
        /\ calls[p].pc = "fetching" /\ calls[p].resp = "ok"
        /\ calls[p].key \in DOMAIN assetCache
        /\ StatusOf(calls[p].body) = "ready"
        /\ calls[p].body # assetCache[calls[p].key]

\* C3 as stated: a lookup is served from the cache, without a network read,
\* exactly when the last load of its key returned a ready record.
HitIffLastLoadReady ==
    \A p \in Procs :
        Looked(p) =>
            /\ (calls[p].loaded = "hit") <=> (calls[p].seenLast = "ready")
            /\ calls[p].reads = IF calls[p].seenLast = "ready" THEN 0 ELSE 1

\* C3 amended: a lookup is served from the cache, without a network read,
\* exactly when some earlier load of its key returned a ready record;
\* otherwise it issues one network read.
HitIffSomeLoadReady ==
    \A p \in Procs :
        Looked(p) =>
            /\ (calls[p].loaded = "hit") <=> calls[p].seenEver
            /\ calls[p].reads = IF calls[p].seenEver THEN 0 ELSE 1

\* C3 witness: a getAsset served from the cache although the last load of
\* its key returned a record that is not ready.
HitAfterNonReadyLoad ==
    \E p \in Procs :
        /\ calls[p].op = "get" /\ calls[p].loaded = "hit"
        /\ calls[p].seenLast = "other"
        /\ calls[p].reads = 0 /\ calls[p].result = "ok"

\* C4: getAsset on a key that is not cached, answered with a non-success
\* response, fails with the not-found error, returns no record and leaves
\* assetCache unchanged.
GetNotFound ==
    [][\A p \in Procs :
          (/\ calls[p].op = "get" /\ calls[p].pc = "fetching"
           /\ calls[p].resp = "fail" /\ calls'[p] # calls[p]) =>
              /\ calls'[p].pc = "done"
              /\ calls'[p].result = "notfound"
              /\ calls'[p].ret = EmptyObj
              /\ assetCache' = assetCache]_vars

\* C4 witness: a getAsset on a key the store never held has ended with the
\* not-found error.
GetOnUnknownKeyFailed ==
    \E p \in Procs :
        /\ calls[p].op = "get" /\ calls[p].pc = "done"
        /\ calls[p].loaded = "fail" /\ calls[p].result = "notfound"
        /\ calls[p].key \notin DOMAIN store
        /\ calls[p].key \notin DOMAIN assetCache

\* C5: updateAsset whose read fails ends with the not-found error, issues no
\* write request and invokes no transform.
UpdateAbsentWritesNothing ==
    \A p \in Procs :
        (calls[p].op = "update" /\ calls[p].loaded = "fail") =>
            /\ calls[p].pc = "done"
            /\ calls[p].result = "notfound"
            /\ calls[p].writes = 0
            /\ calls[p].xf = <<>>
            /\ calls[p].merged = EmptyObj /\ calls[p].out = EmptyObj

\* C5 witness: an updateAsset on a key with no record has failed, and the
\* store still has no record under the key.
UpdateOnUnknownKeyFailed ==
    \E p \in Procs :
        /\ calls[p].op = "update" /\ calls[p].pc = "done"
        /\ calls[p].loaded = "fail" /\ calls[p].result = "notfound"
        /\ calls[p].key \notin DOMAIN store

\* the updateAsset calls that have merged
Merged(p) == calls[p].op = "update" /\ calls[p].merged # EmptyObj

\* m is the deep merge of b over a: mappings present in both merge key by
\* key, anything else in b replaces, fields absent from b are kept
RECURSIVE IsDeepMergeOf(_, _, _)
IsDeepMergeOf(m, a, b) ==
    /\ DOMAIN m = DOMAIN a \cup DOMAIN b
    /\ \A k \in DOMAIN m :
        IF k \notin DOMAIN b THEN m[k] = a[k]
        ELSE IF k \in DOMAIN a /\ a[k].tag = "map" /\ b[k].tag = "map"
             THEN m[k].tag = "map" /\ IsDeepMergeOf(m[k].ent, a[k].ent, b[k].ent)
             ELSE m[k] = b[k]

Without(o, f) == [k \in DOMAIN o \ {f} |-> o[k]]

\* C6 as stated: the record updateAsset builds before the transform is the
\* deep merge of the patch over the current record, in every field.
MergedIsDeepMerge ==
    \A p \in Procs :
        Merged(p) => IsDeepMergeOf(calls[p].merged, calls[p].cur, calls[p].arg)

\* C6 amended: the record updateAsset builds before the transform is, in
\* every field other than updatedAt, the deep merge of the patch over the
\* current record.
MergedIsDeepMergeButStamp ==
    \A p \in Procs :
        Merged(p) =>
            /\ Has(calls[p].merged, "updatedAt")
            /\ IsDeepMergeOf(Without(calls[p].merged, "updatedAt"),
                             Without(calls[p].cur, "updatedAt"),
                             Without(calls[p].arg, "updatedAt"))

\* C6 witness: a nested mapping was merged key by key: the patch's uploadId
\* replaced the current one and the sibling assetId was kept, while an array
\* in the patch replaced the current array.
NestedMergeKeptSibling ==
    \E p \in Procs :
        /\ Merged(p)
        /\ Has(calls[p].merged, "providerMetadata")
        /\ calls[p].merged.providerMetadata = MuxMeta(M([uploadId |-> S("u1"), assetId |-> S("a0")]))
        /\ Has(calls[p].merged, "sources")
        /\ calls[p].merged.sources = A(<<"s1">>)
        /\ Has(calls[p].cur, "sources") /\ calls[p].cur.sources = A(<<"s0">>)

\* the registry key a record's provider selects, if any
Selected(asset) ==
    IF Has(asset, "provider") /\ asset.provider.val # ""
    THEN {Transformers[i] : i \in {j \in 1..Len(Transformers) :
                                      Transformers[j] = camelCase(asset.provider.val)}}
    ELSE {}

\* C7: when the merged record's provider, camel-cased, is a key of the
\* registry, that one transform is applied and its output is the record
\* written and returned; otherwise the merged record is written and returned
\* unchanged.
OneTransformApplied ==
    \A p \in Procs :
        Merged(p) =>
            LET c == calls[p]
                sel == Selected(c.merged)
            IN  /\ \A key \in sel : c.xf = <<key>> /\ c.out = Transform(key, c.merged)
                /\ sel = {} => c.xf = <<>> /\ c.out = c.merged
                /\ (c.pc = "done" /\ c.result = "ok") =>
                        c.ret = c.out /\ store[c.key] = Json(c.out)

\* C7 witness: an update whose provider "vercel-blob" selected the
\* vercelBlob transform has returned the transform's output.
TransformSelectedByCamelCase ==
    \E p \in Procs :
        /\ Merged(p) /\ calls[p].pc = "done" /\ calls[p].result = "ok"
        /\ calls[p].merged.provider = S("vercel-blob")
        /\ calls[p].xf = <<"vercelBlob">>
        /\ calls[p].ret # calls[p].merged

\* the createAsset calls that have built their record
Built(p) == calls[p].op = "create" /\ calls[p].out # EmptyObj

\* C8: the record createAsset saves and returns has the overrides' status or
\* "pending", the normalized reference, the configured provider, empty
\* providerMetadata and the clock's createdAt and updatedAt, whatever the
\* overrides hold for those fields.
CreatedRecordShape ==
    \A p \in Procs :
        Built(p) =>
            LET c == calls[p]
                o == c.out
                path == o.originalFilePath.val
            IN  /\ o.status = IF Has(c.arg, "status") THEN c.arg.status ELSE S("pending")
                /\ IF isRemote(c.ref) THEN path = c.ref
                   ELSE ~path.remote /\ ~path.abs /\ Cwd \o path.segs = c.ref.segs
                /\ o.provider = S(ConfigProvider)
                /\ o.providerMetadata = M(EmptyObj)
                /\ 1 <= o.createdAt.val /\ o.createdAt.val <= o.updatedAt.val
                /\ o.updatedAt.val <= now
                /\ (c.pc = "done" /\ c.result = "ok") =>
                        c.ret = o /\ store[c.key] = Json(o)

\* C8 witness: a createAsset whose overrides name every protected field has
\* returned.
CreatedWithFullOverride ==
    \E p \in Procs :
        /\ Built(p) /\ calls[p].pc = "done" /\ calls[p].result = "ok"
        /\ calls[p].arg = FullOverride
        /\ calls[p].ret.status = S("ready")

\* C9: the createdAt of the record stored under a key, and of every record
\* updateAsset returns, is the createdAt set when the record was created.
CreatedAtNeverChanges ==
    /\ \A k \in DOMAIN store : store[k].createdAt.val = born[k]
    /\ \A p \in Procs :
        (Merged(p) /\ calls[p].pc = "done" /\ calls[p].result = "ok") =>
            calls[p].ret.createdAt.val = born[calls[p].key]

\* the updateAsset calls that returned after an earlier updateAsset on the
\* same key had returned
SecondUpdate(p) ==
    /\ Merged(p) /\ calls[p].pc = "done" /\ calls[p].result = "ok"
    /\ calls[p].prevUpd # None

\* C10 as stated: of two successive successful updates of a key, the second
\* returns an updatedAt strictly greater than the first.
UpdatedAtStrictlyIncreases ==
    \A p \in Procs : SecondUpdate(p) => calls[p].ret.updatedAt.val > calls[p].prevUpd

\* C10 amended: of two successive successful updates of a key, the second
\* returns an updatedAt not less than the first.
UpdatedAtNeverDecreases ==
    \A p \in Procs : SecondUpdate(p) => calls[p].ret.updatedAt.val >= calls[p].prevUpd

\* C10 witness: a second update returned the same updatedAt as the first,
\* both having read the clock within one millisecond.
SecondUpdateSameStamp ==
    \E p \in Procs : SecondUpdate(p) /\ calls[p].ret.updatedAt.val = calls[p].prevUpd

\* the key of a local path: the path as given, ".json" appended
LocalKeyOf(ref) ==
    [abs |-> ref.abs,
     segs |-> [i \in 1..Len(ref.segs) |->
                  IF i = Len(ref.segs) THEN ref.segs[i] \o ".json" ELSE ref.segs[i]]]

Errors == {"config", "notfound", "write"}

\* C11: a call fails with the configuration error exactly when its reference
\* is a remote URL and no folder is configured; the key of a local path is
\* the path as given with ".json" appended; the failing call has issued no
\* read and no write, and its failure leaves assetCache and the store
\* unchanged.
KeyResolution ==
    [][\A p \in Procs :
          (calls[p].pc = "config" /\ calls'[p] # calls[p]) =>
              /\ (calls'[p].result = "config") <=>
                     (isRemote(calls[p].ref) /\ folder = NoFolder)
              /\ calls'[p].result = "config" =>
                     /\ calls'[p].pc = "done"
                     /\ calls'[p].reads = 0 /\ calls'[p].writes = 0
                     /\ assetCache' = assetCache /\ store' = store
              /\ ~isRemote(calls[p].ref) => calls'[p].key = LocalKeyOf(calls[p].ref)]_vars

\* C11 witness: an updateAsset on a remote URL, with no folder configured,
\* has ended with the configuration error before any request.
RemoteWithoutFolderFailed ==
    \E p \in Procs :
        /\ calls[p].op = "update" /\ isRemote(calls[p].ref) /\ folder = NoFolder
        /\ calls[p].pc = "done" /\ calls[p].result = "config"
        /\ calls[p].reads = 0 /\ calls[p].writes = 0

\* C12: a createAsset on a local path whose stat failed still issues its
\* write and returns the new record, without a size and without an error
\* from the stat; on a remote URL no stat is attempted.
StatFailureSwallowed ==
    \A p \in Procs :
        calls[p].op = "create" =>
            /\ calls[p].stat = "fail" =>
                   /\ calls[p].pc \in {"saving", "done"}
                   /\ calls[p].writes = 1
                   /\ ~Has(calls[p].out, "size")
                   /\ calls[p].result \in {"none", "ok", "write"}
                   /\ calls[p].wrote =>
                          /\ store[calls[p].key] = Json(calls[p].out)
                          /\ calls[p].pc = "done" =>
                                 calls[p].result = "ok" /\ calls[p].ret = calls[p].out
            /\ isRemote(calls[p].ref) => calls[p].stat = "none"

\* C12 witness: a createAsset whose stat failed has returned its record,
\* which has no size.
CreatedAfterStatFailure ==
    \E p \in Procs :
        /\ calls[p].op = "create" /\ calls[p].stat = "fail"
        /\ calls[p].pc = "done" /\ calls[p].result = "ok"
        /\ calls[p].ret # EmptyObj /\ ~Has(calls[p].ret, "size")

\* C13: no step of a createAsset call, whatever its reference and overrides
\* and whether it succeeds or fails, changes assetCache, and createAsset
\* never looks a key up.
CreateLeavesCache ==
    [][\A p \in Procs :
          ((calls[p].op = "create" \/ calls'[p].op = "create") /\ calls'[p] # calls[p]) =>
              /\ assetCache' = assetCache
              /\ calls'[p].loaded = "none" /\ calls'[p].reads = 0]_vars

\* C13 witness: a createAsset with status "ready" in its overrides has
\* returned and its key is not cached.
ReadyCreatedNotCached ==
    \E p \in Procs :
        /\ calls[p].op = "create" /\ calls[p].pc = "done" /\ calls[p].result = "ok"
        /\ calls[p].ret.status = S("ready")
        /\ calls[p].key \notin DOMAIN assetCache

\* the calls that ended in an error
Failed(p) == calls[p].pc = "done" /\ calls[p].result \in Errors

\* C14 as stated: a call that ended in an error returned no record and has
\* changed neither the store nor assetCache.
FailedChangedNothing ==
    \A p \in Procs :
        Failed(p) => calls[p].ret = EmptyObj /\ ~calls[p].wrote /\ ~calls[p].cached

\* C14 amended: a call that ended in an error returned no record and has not
\* changed the store; it has changed assetCache only if it is an updateAsset
\* whose read returned a ready record, cached before its save failed.
FailedChangedStoreNever ==
    \A p \in Procs :
        Failed(p) =>
            /\ calls[p].ret = EmptyObj
            /\ ~calls[p].wrote
            /\ calls[p].cached =>
                   /\ calls[p].op = "update" /\ calls[p].result = "write"
                   /\ calls[p].loaded = "ok" /\ StatusOf(calls[p].body) = "ready"

\* C14 witness: an updateAsset cached the ready record it read and then its
\* save failed.
FailedUpdateCachedItsRead ==
    \E p \in Procs :
        /\ Failed(p) /\ calls[p].op = "update" /\ calls[p].result = "write"
        /\ calls[p].cached /\ calls[p].key \in DOMAIN assetCache

\* the step in which the store applies the write of call p
WriteApplied(p) ==
    calls[p].pc = "saving" /\ calls[p].resp = "none" /\ calls'[p].resp = "ok"

NoRetry ==
    \A p \in Procs :
        /\ calls[p].reads <= 1 /\ calls[p].writes <= 1
        /\ calls[p].op = "get" => calls[p].writes = 0
        /\ calls[p].op = "create" => calls[p].reads = 0
        /\ (calls[p].op = "update" /\ calls[p].writes = 1) =>
               calls[p].loaded \in {"hit", "ok"}
        /\ calls[p].loaded = "fail" =>
               /\ calls[p].pc = "done" /\ calls[p].result = "notfound"
               /\ calls[p].reads = 1 /\ calls[p].writes = 0
        /\ calls[p].result = "write" =>
               calls[p].pc = "done" /\ calls[p].writes = 1 /\ ~calls[p].wrote

\* C16 witness: an updateAsset whose read succeeded and whose save failed has
\* ended with the save's error after one read and one write.
UpdateFailedAfterOneWrite ==
    \E p \in Procs :
        /\ calls[p].op = "update" /\ calls[p].pc = "done" /\ calls[p].result = "write"
        /\ calls[p].reads = 1 /\ calls[p].writes = 1

\* C17: the merged record's updatedAt is the clock value read at the merge,
\* whatever updatedAt the patch and the current record carry.
StampIsMergeClock ==
    \A p \in Procs :
        Merged(p) =>
            /\ calls[p].merged.updatedAt = S(calls[p].mergedAt)
            /\ 1 <= calls[p].mergedAt /\ calls[p].mergedAt <= now

\* C17 witness: a patch carrying an updatedAt has been merged and the merged
\* record has neither the patch's updatedAt nor the current record's.
PatchStampOverridden ==
    \E p \in Procs :
        /\ Merged(p) /\ Has(calls[p].arg, "updatedAt")
        /\ calls[p].merged.updatedAt # calls[p].arg.updatedAt
        /\ calls[p].merged.updatedAt # calls[p].cur.updatedAt

\* C18: if every ready continuation runs and every request is answered, every
\* call completes; a call waiting for a response takes no step but the
\* receipt of the response, so without one it never completes.
EveryCallCompletes ==
    /\ \A p \in Procs : (calls[p].pc # "idle") ~> (calls[p].pc = "done")
    /\ [][\A p \in Procs :
            (/\ calls[p].pc \in {"fetching", "saving"} /\ calls[p].resp = "none"
             /\ calls'[p] # calls[p]) =>
                calls'[p].pc = calls[p].pc /\ calls'[p].resp # "none"]_vars

\* C18 witness: a call has completed after its request was answered.
CompletedAfterResponse ==
    \E p \in Procs :
        /\ calls[p].pc = "done" /\ calls[p].result = "ok"
        /\ calls[p].reads + calls[p].writes >= 1

\* C19: a getAsset that follows a successful createAsset or updateAsset on
\* the same reference, with no call in between, returns the record that
\* write returned (fields holding undefined apart: they do not survive the
\* wire), whatever the cache held before the write.
ReadYourWrites ==
    \A p \in Procs :
        (/\ calls[p].op = "get" /\ calls[p].pc = "done" /\ calls[p].result = "ok"
         /\ calls[p].prev.op # "none") =>
            Json(calls[p].ret) = Json(calls[p].prev.rec)

\* the fields of patch d are in record r: mappings key by key, anything else
\* as it is
RECURSIVE Contains(_, _)
Contains(r, d) ==
    \A f \in DOMAIN d :
        /\ f \in DOMAIN r
        /\ IF IsMap(d[f]) /\ IsMap(r[f]) THEN Contains(r[f].ent, d[f].ent)
           ELSE r[f] = d[f]

\* patches on disjoint fields, none of them the updatedAt updateAsset sets
DisjointPatches(d1, d2) ==
    /\ DOMAIN d1 \cap DOMAIN d2 = {}
    /\ "updatedAt" \notin DOMAIN d1 \cup DOMAIN d2

\* the updateAsset calls that returned right after an updateAsset on the
\* same key with a patch on other fields had returned
SecondDisjointUpdate(p) ==
    /\ calls[p].op = "update" /\ calls[p].pc = "done" /\ calls[p].result = "ok"
    /\ calls[p].prev.op = "update"
    /\ DisjointPatches(calls[p].prev.arg, calls[p].arg)

\* C20: after two successful updateAsset calls on a key, one after the
\* other, with patches on disjoint fields, the store holds a record with the
\* fields of both patches, whatever the status of the record at the start.
UpdatesAccumulate ==
    \A p \in Procs :
        SecondDisjointUpdate(p) =>
            /\ Contains(store[calls[p].key], calls[p].prev.arg)
            /\ Contains(store[calls[p].key], calls[p].arg)
====
